---- MODULE Spec2Model ----
(***************************************************************************)
(* State-machine model of the ensemble network class NN                    *)
(* (dmbrl/modeling/models/NN.py): construction, add / pop / finalize,      *)
(* train, predict and save.  One caller drives the object; every call is   *)
(* synchronous, so a call that loops (train) is a run of steps during      *)
(* which no other call is enabled.                                         *)
(***************************************************************************)
EXTENDS Integers, Sequences, FiniteSets, TLC

\* ---------------------------------------------------------------- bounds
MaxNets == 2        \* num_networks is drawn from 1..MaxNets
MaxDim == 2         \* layer dimensions are drawn from 1..MaxDim
MaxLayers == 2      \* add is not called on a list of MaxLayers layers
MaxAttempts == 1    \* after a failed load the body of finalize runs again at most
                    \* MaxAttempts - 1 times
FewRows == 1        \* train with default arguments receives 0..FewRows input rows
MaxRows == 2        \* train receives 0..MaxRows input rows
MaxBatch == 2       \* batch_size is drawn from 1..MaxBatch
MaxEpochs == 2      \* epochs is drawn from 0..MaxEpochs
MaxLogging == 1     \* max_logging is drawn from 0..MaxLogging
RatioDen == 2       \* holdout_ratio is drawn from {0/RatioDen .. RatioDen/RatioDen}
MaxPredictRows == 2 \* predict receives 1..MaxPredictRows input rows when its values
                    \* are explored
MaxOut == 1         \* an entry of the networks' output is drawn from -MaxOut..MaxOut

\* ------------------------------------------------------- representations
\* Python's None for an object reference or a returned value.
None == <<>>
\* get_input_dim() of a layer whose input dimension has not been set.
NoDim == 0

Dims == 1..MaxDim

\* A layer handed to add by the caller: output dimension always set, input
\* dimension possibly unset, ensemble size whatever the caller left in it.
CallerLayers ==
    [input_dim : Dims \cup {NoDim}, output_dim : Dims, ensemble_size : 1..MaxNets]

VARIABLES
    obj,                \* "none" before / without a constructed object, else "live"
    model_dir,          \* params.model_dir: "None" or "dir"
    num_nets, model_loaded, load_model_values,
    finalized, layers, decays, optvars, nonoptvars,
    scaler,             \* None or <<[x_dim, fitted]>>
    optimizer,          \* "None" or "optimizer"
    graph,              \* the training and prediction handles built by finalize
    values,             \* value of every tensorflow variable that exists
    files,              \* files written by save
    attempts,           \* how many times the body of finalize has run
    pc,                 \* "idle" between calls, "train" inside the loop of train,
                        \* "done" when a call has ended and the caller holds its outcome
    tr,                 \* locals of the running train call
    obs,                \* what the running train call has done (steps, fits, rows fed,
                        \* bootstrap draws, chunks fed in the current epoch, and the
                        \* order of it all)
    last,               \* the call in hand: op, arguments, raised error, returned value
    pre,                \* the object as it was when the call in hand was made
    prev                \* what the caller did before: whether the call before was an
                        \* add that returned, the layer list that add was made on, and
                        \* the positions of the layers it had given another input
                        \* dimension than the one add set

vars == <<obj, model_dir, num_nets, model_loaded, load_model_values, finalized,
          layers, decays, optvars, nonoptvars, scaler, optimizer, graph, values,
          files, attempts, pc, tr, obs, last, pre, prev>>

\* Everything of the object add and pop can touch besides the layer list.
built == <<decays, optvars, nonoptvars, scaler, optimizer, graph, values>>
config == <<obj, model_dir, num_nets, model_loaded, load_model_values>>

\* ---------------------------------------------------------------- helpers
Last(s) == s[Len(s)]
Front(s) == SubSeq(s, 1, Len(s) - 1)
Range(s) == {s[i] : i \in 1..Len(s)}
Min(a, b) == IF a < b THEN a ELSE b

NoArg == [input_dim |-> NoDim, shape |-> <<>>, factored |-> FALSE,
          load_model |-> FALSE, model_dir |-> "None",
          archive |-> [exists |-> FALSE, names |-> <<>>]]
NoRet == [layer |-> None, mean |-> "None", mean_shape |-> <<>>, var |-> "None",
          var_shape |-> <<>>, fac |-> None, mean_val |-> None, var_val |-> None]

Call(op, arg, err, ret) == [op |-> op, arg |-> arg, err |-> err, ret |-> ret]
NoPrev == [added |-> FALSE, before |-> <<>>, overridden |-> {}]

\* The fields of the object, for comparing the object before and after a call.
Snapshot ==
    [finalized |-> finalized, layers |-> layers, decays |-> decays, optvars |-> optvars,
     nonoptvars |-> nonoptvars, scaler |-> scaler, optimizer |-> optimizer,
     graph |-> graph, values |-> values, files |-> files]

\* Handles as __init__ leaves them (lines 54-61).
NoGraph ==
    [train_op |-> "None", mse_loss |-> "None",
     sy_train_in |-> "None", sy_train_targ |-> "None",
     sy_pred_in2d |-> "None", sy_pred_mean2d_fac |-> "None",
     sy_pred_mean2d |-> "None", sy_pred_var2d |-> "None",
     sy_pred_in3d |-> "None", sy_pred_mean3d_fac |-> "None",
     x_dim |-> NoDim, y_dim |-> NoDim]

IdleTrain ==
    [N |-> 0, batch_size |-> 1, epochs |-> 0, hide_progress |-> TRUE,
     ratio_num |-> 0, max_logging |-> 0, num_holdout |-> 0,
     inputs |-> <<>>, holdout_inputs |-> <<>>, idxs |-> <<>>,
     targets |-> <<>>, holdout_targets |-> <<>>, epoch |-> 0, batch_num |-> 0]

NoObs ==
    [steps |-> 0, fits |-> 0, fit_rows |-> {}, fed |-> {}, loss_evals |-> 0,
     holdout_evals |-> 0, empty_holdout_evals |-> 0,
     draws |-> 0, drawn |-> <<>>, epoch_fed |-> <<>>, events |-> <<>>]

Init ==
    /\ obj = "none"
    /\ model_dir = "None"
    /\ num_nets = 1
    /\ model_loaded = FALSE
    /\ load_model_values = FALSE
    /\ finalized = FALSE
    /\ layers = <<>>
    /\ decays = <<>>
    /\ optvars = <<>>
    /\ nonoptvars = <<>>
    /\ scaler = None
    /\ optimizer = "None"
    /\ graph = NoGraph
    /\ values = [n \in {} |-> "init"]
    /\ files = {}
    /\ attempts = 0
    /\ pc = "idle"
    /\ tr = IdleTrain
    /\ obs = NoObs
    /\ last = Call("none", NoArg, "none", NoRet)
    /\ pre = Snapshot
    /\ prev = NoPrev

\* A call is made: the object as the call finds it.
Enter == pre' = Snapshot

\* The call ends: its outcome is what the caller gets.
Return(op, arg, err, ret) ==
    /\ last' = Call(op, arg, err, ret)
    /\ pc' = "done"

\* The call ends by raising err.
Raise(op, arg, err) == Return(op, arg, err, NoRet)

\* --------------------------------------------------------------- __init__
\* A slip that drops the check of the model directory from __init__.
InitNeverRaises(load_model, dir) == "none"

\* Error raised by __init__, "none" when it returns an object.
InitRaises(load_model, dir) ==
    IF load_model /\ dir = "None" THEN "ValueError" ELSE "none"

\* A slip that keeps the structure-loading assignment: model_loaded follows
\* load_model.
ModelLoadedWithStructure(load_model) == load_model

\* model_loaded as __init__ sets it: False on both branches, the structure is
\* not read back.
ModelLoaded(load_model) == FALSE

\* self.num_nets as __init__ sets it: params.get('num_networks', 1) on the
\* load branch (line 69) and on the other (line 73).
NumNets(num_networks, load_model) == num_networks

Construct(num_networks, load_model, dir) ==
    /\ obj = "none" /\ pc = "idle"
    /\ Enter
    /\ IF InitRaises(load_model, dir) # "none"
       THEN /\ Raise("init", [NoArg EXCEPT !.load_model = load_model, !.model_dir = dir],
                     InitRaises(load_model, dir))
            /\ UNCHANGED <<config, finalized, layers, built, files, attempts, tr, obs, prev>>
       ELSE /\ obj' = "live"
            /\ model_dir' = dir
            /\ num_nets' = NumNets(num_networks, load_model)
            /\ model_loaded' = ModelLoaded(load_model)
            /\ load_model_values' = load_model
            /\ Return("init", [NoArg EXCEPT !.load_model = load_model, !.model_dir = dir],
                      "none", NoRet)
            /\ UNCHANGED <<finalized, layers, built, files, attempts, tr, obs, prev>>

\* -------------------------------------------------------------- add / pop
\* A slip that drops the check of finalized from add.
AddRaisesUnguarded(layer) ==
    IF Len(layers) = 0 /\ layer.input_dim = NoDim THEN "ValueError"
    ELSE IF model_loaded THEN "RuntimeError"
    ELSE "none"

\* A slip that drops the check of the first layer's input dimension from add.
AddRaisesAnyFirst(layer) ==
    IF finalized THEN "RuntimeError"
    ELSE IF model_loaded THEN "RuntimeError"
    ELSE "none"

\* Error raised by add(layer), "none" when the layer is appended.
AddRaises(layer) ==
    IF finalized THEN "RuntimeError"
    ELSE IF Len(layers) = 0 /\ layer.input_dim = NoDim THEN "ValueError"
    ELSE IF model_loaded THEN "RuntimeError"
    ELSE "none"

\* A slip that appends the layer as the caller handed it over.
ChainedAsGiven(layer) == layer

\* The layer add appends: ensemble size from the model, input dimension
\* chained from the last layer when there is one, then an unconstructed copy.
Chained(layer) ==
    [input_dim |-> IF Len(layers) > 0 THEN Last(layers).output_dim ELSE layer.input_dim,
     output_dim |-> layer.output_dim,
     ensemble_size |-> num_nets]

\* set_input_dim replaced an input dimension the caller had set by another.
Overrides(given, set) == given # NoDim /\ given # set

\* A slip that inserts the new layer at the front of the list.
Prepended(ls, l) == <<l>> \o ls

\* self.layers.append(...).
Appended(ls, l) == Append(ls, l)

Add(layer) ==
    /\ obj = "live" /\ pc = "idle"
    /\ Enter
    /\ finalized \/ Len(layers) < MaxLayers
    /\ LET arg == [NoArg EXCEPT !.input_dim = layer.input_dim] IN
       IF AddRaises(layer) # "none"
       THEN /\ Raise("add", arg, AddRaises(layer))
            /\ UNCHANGED layers
       ELSE /\ layers' = Appended(layers, Chained(layer))
            /\ Return("add", arg, "none", NoRet)
    /\ UNCHANGED <<config, finalized, built, files, attempts, tr, obs, prev>>

\* Error raised by pop(), "none" when a layer is removed.
PopRaises ==
    IF Len(layers) = 0 THEN "RuntimeError"
    ELSE IF finalized THEN "RuntimeError"
    ELSE IF model_loaded THEN "RuntimeError"
    ELSE "none"

\* list.pop(): the removed element and the list it leaves.
PopReturn(ls) == Last(ls)

\* A slip that removes the first layer instead of the last.
PopRestFromFront(ls) == Tail(ls)

PopRest(ls) == Front(ls)

Pop ==
    /\ obj = "live" /\ pc = "idle"
    /\ Enter
    /\ IF PopRaises # "none"
       THEN /\ Raise("pop", NoArg, PopRaises)
            /\ UNCHANGED layers
       ELSE /\ layers' = PopRest(layers)
            /\ Return("pop", NoArg, "none", [NoRet EXCEPT !.layer = <<PopReturn(layers)>>])
    /\ UNCHANGED <<config, finalized, built, files, attempts, tr, obs, prev>>

\* ---------------------------------------------------------------- finalize
\* A slip that drops the check of finalized from finalize.
FinalizeRaisesOnEmptyOnly == IF Len(layers) = 0 THEN "RuntimeError" ELSE "none"

\* Error raised by the guards of finalize, "none" when its body runs.
FinalizeRaises ==
    IF Len(layers) = 0 THEN "RuntimeError"
    ELSE IF finalized THEN "RuntimeError"
    ELSE "none"

\* Names of the tensorflow variables, as variable_scope / get_variable name them.
ScalerVars == << <<"Scaler", 0, "scaler_mu">>, <<"Scaler", 0, "scaler_std">> >>
LayerVars(i) == << <<"Layer", i, "FC_weights">>, <<"Layer", i, "FC_biases">> >>
LayerDecay(i) == <<"Layer", i, "weight_decay">>
BogusVar == <<"Layer", -1, "no_such_tensor">>

RECURSIVE AllLayerVars(_)
AllLayerVars(n) == IF n = 0 THEN <<>> ELSE AllLayerVars(n - 1) \o LayerVars(n - 1)

RECURSIVE AllDecays(_)
AllDecays(n) == IF n = 0 THEN <<>> ELSE Append(AllDecays(n - 1), LayerDecay(n - 1))

\* TensorStandardScaler(x_dim): statistics not fitted yet.
NewScaler(x_dim) == <<[x_dim |-> x_dim, fitted |-> FALSE]>>

\* Handles after the training and prediction set-up of finalize; x_dim is the
\* last axis the input placeholders were declared with, y_dim the last axis of
\* the network's output.
BuiltGraph(x_dim, y_dim) ==
    [train_op |-> "train_op", mse_loss |-> "mse_loss",
     sy_train_in |-> "sy_train_in", sy_train_targ |-> "sy_train_targ",
     sy_pred_in2d |-> "sy_pred_in2d", sy_pred_mean2d_fac |-> "sy_pred_mean2d_fac",
     sy_pred_mean2d |-> "sy_pred_mean2d", sy_pred_var2d |-> "sy_pred_var2d",
     sy_pred_in3d |-> "sy_pred_in3d", sy_pred_mean3d_fac |-> "sy_pred_mean3d_fac",
     x_dim |-> x_dim, y_dim |-> y_dim]

\* tf.variables_initializer(optvars + nonoptvars + ...): every listed variable
\* gets its initial value; a variable not listed keeps what it has.
Initialized(vals, names) ==
    [n \in DOMAIN vals \cup Range(names) |-> IF n \in Range(names) THEN "init" ELSE vals[n]]

\* The archive np.load(model_dir) finds: absent, or a list of names (data.files).
Archive(exists, names) == [exists |-> exists, names |-> names]
ArchiveChoices(n) ==
    { Archive(FALSE, <<>>),
      Archive(TRUE, AllLayerVars(n)),
      Archive(TRUE, LayerVars(0) \o <<BogusVar>>) }

\* A slip that restores what it can: a name the graph does not hold is skipped.
RECURSIVE RestoreSkipsUnknown(_, _)
RestoreSkipsUnknown(vals, names) ==
    IF names = <<>> THEN [values |-> vals, err |-> "none"]
    ELSE IF Head(names) \notin DOMAIN vals THEN RestoreSkipsUnknown(vals, Tail(names))
    ELSE RestoreSkipsUnknown([vals EXCEPT ![Head(names)] = "restored"], Tail(names))

\* The restore loop of finalize over data.files: each name is looked up in the
\* graph and assigned; the first name the graph does not hold raises, with the
\* names before it already assigned.
RECURSIVE Restore(_, _)
Restore(vals, names) ==
    IF names = <<>> THEN [values |-> vals, err |-> "none"]
    ELSE IF Head(names) \notin DOMAIN vals THEN [values |-> vals, err |-> "KeyError"]
    ELSE Restore([vals EXCEPT ![Head(names)] = "restored"], Tail(names))

\* Whether finalize goes through its load block.
LoadsValues == model_loaded \/ load_model_values

\* Result of the load block on the freshly initialized values.
Loaded(vals, archive) ==
    IF ~LoadsValues THEN [values |-> vals, err |-> "none"]
    ELSE IF ~archive.exists THEN [values |-> vals, err |-> "IOError"]
    ELSE Restore(vals, archive.names)

\* What the caller knows of a finalize: the archive at model_dir, when the call
\* reads it.
FinalizeArg(archive) == IF LoadsValues THEN [NoArg EXCEPT !.archive = archive] ELSE NoArg

\* scope_clash: the variable scope of this model already holds the scaler's
\* variables (an earlier finalize got as far as creating them) and tensorflow
\* refuses to create them again; the code of the scaler decides, so both
\* outcomes are modelled.
Finalize(archive, scope_clash) ==
    /\ obj = "live" /\ pc = "idle"
    /\ Enter
    /\ IF FinalizeRaises # "none"
       THEN /\ Raise("finalize", FinalizeArg(archive), FinalizeRaises)
            /\ UNCHANGED <<finalized, layers, built, attempts>>
       ELSE IF attempts > 0 /\ scope_clash
       THEN /\ optimizer' = "optimizer"
            /\ Raise("finalize", FinalizeArg(archive), "ValueError")
            /\ UNCHANGED <<finalized, layers, decays, optvars, nonoptvars, scaler,
                           graph, values, attempts>>
       ELSE /\ finalized \/ attempts < MaxAttempts
            /\ attempts' = attempts + 1
            /\ optimizer' = "optimizer"
            /\ scaler' = NewScaler(layers[1].input_dim)
            /\ UNCHANGED layers
            /\ decays' = decays \o AllDecays(Len(layers))
            /\ optvars' = optvars \o AllLayerVars(Len(layers))
            /\ nonoptvars' = nonoptvars \o ScalerVars
            /\ graph' = BuiltGraph(layers[1].input_dim, Last(layers).output_dim)
            /\ LET res == Loaded(Initialized(values, optvars' \o nonoptvars'), archive) IN
                 /\ values' = res.values
                 /\ finalized' = (res.err = "none")
                 /\ Return("finalize", FinalizeArg(archive), res.err, NoRet)
    /\ UNCHANGED <<config, files, tr, obs, prev>>

\* ----------------------------------------------------------------- predict
\* A slip that looks at factored before the rank: a rank-3 input with
\* factored=False is sent down the aggregating 2D path.
PredictFetchFlagFirst(rank, factored) ==
    IF ~factored
    THEN [mean |-> graph.sy_pred_mean2d, var |-> graph.sy_pred_var2d,
          feed |-> IF rank = 2 THEN graph.sy_pred_in2d ELSE graph.sy_pred_in3d]
    ELSE IF rank = 2
    THEN [mean |-> graph.sy_pred_mean2d_fac, var |-> "None", feed |-> graph.sy_pred_in2d]
    ELSE [mean |-> graph.sy_pred_mean3d_fac, var |-> "None", feed |-> graph.sy_pred_in3d]

\* What predict fetches and feeds for an input of the given rank.
PredictFetch(rank, factored) ==
    IF rank = 2
    THEN IF factored
         THEN [mean |-> graph.sy_pred_mean2d_fac, var |-> "None", feed |-> graph.sy_pred_in2d]
         ELSE [mean |-> graph.sy_pred_mean2d, var |-> graph.sy_pred_var2d,
               feed |-> graph.sy_pred_in2d]
    ELSE [mean |-> graph.sy_pred_mean3d_fac, var |-> "None", feed |-> graph.sy_pred_in3d]

\* Shape of the value of a fetched tensor for a fed batch of the given size:
\* the factored outputs keep the member axis, reduce_mean(axis=0) drops it.
TensorShape(tensor, batch) ==
    IF tensor \in {"sy_pred_mean2d_fac", "sy_pred_mean3d_fac"}
    THEN <<num_nets, batch, graph.y_dim>>
    ELSE IF tensor \in {"sy_pred_mean2d", "sy_pred_var2d"} THEN <<batch, graph.y_dim>>
    ELSE <<>>

\* Shape of the placeholder a feed goes to (None for the batch axis matches any).
FeedFits(shape, feed) ==
    IF feed = "sy_pred_in2d"
    THEN Len(shape) = 2 /\ shape[2] = graph.x_dim
    ELSE Len(shape) = 3 /\ shape[1] = num_nets /\ shape[3] = graph.x_dim

\* Error raised by session.run in predict: a handle that is still None is no
\* fetch, and a fed array must fit its placeholder.
PredictRaises(shape, factored) ==
    LET f == PredictFetch(Len(shape), factored) IN
    IF f.mean = "None" \/ f.feed = "None" THEN "TypeError"
    ELSE IF ~FeedFits(shape, f.feed) THEN "ValueError"
    ELSE "none"

PredictShapes ==
    {<<1, d>> : d \in Dims} \cup {<<n, 1, d>> : n \in 1..MaxNets, d \in Dims}

\* Numbers a tensor holds, as fractions num / den with den > 0: the graph's
\* arithmetic is taken exact (float32 rounding, inf and nan are left out).
Rat(n) == [num |-> n, den |-> 1]
RatAdd(a, b) == [num |-> a.num * b.den + b.num * a.den, den |-> a.den * b.den]
RatSub(a, b) == [num |-> a.num * b.den - b.num * a.den, den |-> a.den * b.den]
RatSquare(a) == [num |-> a.num * a.num, den |-> a.den * a.den]
RatDiv(a, n) == [num |-> a.num, den |-> a.den * n]

RECURSIVE RatSum(_)
RatSum(s) == IF Len(s) = 0 THEN Rat(0) ELSE RatAdd(RatSum(Front(s)), Last(s))

\* What the networks can put out for a batch: one entry per member, input row
\* and output unit.  The layers' arithmetic is FC's, so the entries are drawn.
Outputs(nets, batch, y_dim, max_out) ==
    [1..nets -> [1..batch -> [1..y_dim -> {Rat(v) : v \in -max_out..max_out}]]]

\* A slip that sums over the member axis without dividing by its length.
ReduceSum(t) ==
    [i \in DOMAIN t[1] |->
        [j \in DOMAIN t[1][i] |-> RatSum([m \in DOMAIN t |-> t[m][i][j]])]]

\* tf.reduce_mean(t, axis=0): the member axis is averaged away.
ReduceMean(t) ==
    [i \in DOMAIN t[1] |->
        [j \in DOMAIN t[1][i] |->
            RatDiv(RatSum([m \in DOMAIN t |-> t[m][i][j]]), Len(t))]]

\* tf.square(t - mean), mean broadcast along the member axis.
SquaredDeviation(t, mean) ==
    [m \in DOMAIN t |->
        [i \in DOMAIN t[m] |->
            [j \in DOMAIN t[m][i] |-> RatSquare(RatSub(t[m][i][j], mean[i][j]))]]]

\* Value session.run gives for a fetched tensor when the networks put out fac.
Evaluate(tensor, fac) ==
    IF tensor \in {"sy_pred_mean2d_fac", "sy_pred_mean3d_fac"} THEN fac
    ELSE IF tensor = "sy_pred_mean2d" THEN ReduceMean(fac)
    ELSE IF tensor = "sy_pred_var2d"
    THEN ReduceMean(SquaredDeviation(fac, ReduceMean(fac)))
    ELSE None

\* max_out bounds the entries the networks put out for the fed batch.
Predict(shape, factored, max_out) ==
    /\ obj = "live" /\ pc = "idle"
    /\ Enter
    /\ LET arg == [NoArg EXCEPT !.shape = shape, !.factored = factored]
           f == PredictFetch(Len(shape), factored) IN
       IF PredictRaises(shape, factored) # "none"
       THEN Raise("predict", arg, PredictRaises(shape, factored))
       ELSE \E fac \in Outputs(num_nets, shape[Len(shape) - 1], graph.y_dim, max_out) :
            Return("predict", arg, "none",
                   [NoRet EXCEPT !.mean = f.mean, !.var = f.var,
                                 !.mean_shape = TensorShape(f.mean, shape[Len(shape) - 1]),
                                 !.var_shape = TensorShape(f.var, shape[Len(shape) - 1]),
                                 !.fac = fac,
                                 !.mean_val = Evaluate(f.mean, fac),
                                 !.var_val = Evaluate(f.var, fac)])
    /\ UNCHANGED <<config, finalized, layers, built, files, attempts, tr, obs, prev>>

\* -------------------------------------------------------------------- save
\* A slip that drops the check of finalized from save.
SaveRaisesUnguarded(savedir) ==
    IF savedir = "None" /\ model_dir = "None" THEN "TypeError" ELSE "none"

\* Error raised by save before anything is written.
SaveRaises(savedir) ==
    IF ~finalized THEN "RuntimeError"
    ELSE IF savedir = "None" /\ model_dir = "None" THEN "TypeError"
    ELSE "none"

\* The structure file and the parameter archive save writes.
Written(dir) == {<<dir, "nns">>, <<dir, "mat">>}

Save(savedir) ==
    /\ obj = "live" /\ pc = "idle"
    /\ Enter
    /\ IF SaveRaises(savedir) # "none"
       THEN /\ Raise("save", NoArg, SaveRaises(savedir))
            /\ UNCHANGED files
       ELSE /\ files' = files \cup Written(IF savedir = "None" THEN model_dir ELSE savedir)
            /\ Return("save", NoArg, "none", NoRet)
    /\ UNCHANGED <<config, finalized, layers, built, attempts, tr, obs, prev>>

\* ------------------------------------------------------------------- train
\* Permutations of 1..n, as np.random.permutation(n) draws them (1-based).
Perms(n) == {p \in [1..n -> 1..n] : \A i, j \in 1..n : p[i] = p[j] => i = j}

\* min(int(N * holdout_ratio), max_logging), holdout_ratio = ratio_num / RatioDen.
NumHoldout(N, ratio_num, max_logging) == Min((N * ratio_num) \div RatioDen, max_logging)

\* A slip that keeps every row for training (the split is taken but not used).
RetainedAll(permutation, num_holdout) == permutation

\* permutation[num_holdout:] and permutation[:num_holdout].
Retained(permutation, num_holdout) ==
    SubSeq(permutation, num_holdout + 1, Len(permutation))
HeldOut(permutation, num_holdout) == SubSeq(permutation, 1, num_holdout)

\* scaler.fit(inputs): the statistics are recomputed from the given rows.
Fit(sc) == <<[sc[1] EXCEPT !.fitted = TRUE]>>
FitRows(rows) == Range(rows)

\* np.random.randint(n, size=[num_nets, n]): one row of n positions per member
\* (positions are 1-based here).
BootstrapDraws(nets, n) == [1..nets -> [1..n -> 1..n]]

\* A slip that rounds the number of chunks down: the short last chunk is lost.
NumBatchesFloor(n, batch_size) == n \div batch_size

\* int(np.ceil(idxs.shape[-1] / batch_size)).
NumBatches(n, batch_size) == (n + batch_size - 1) \div batch_size

\* idxs[:, batch_num * batch_size:(batch_num + 1) * batch_size] for one member.
BatchIdxs(row, batch_num, batch_size) ==
    SubSeq(row, batch_num * batch_size + 1, Min((batch_num + 1) * batch_size, Len(row)))

\* inputs[batch_idxs]: the rows of the data set the step is fed, all members.
RowsFed(inputs, idxs, batch_num, batch_size) ==
    {inputs[k] : k \in UNION {Range(BatchIdxs(idxs[m], batch_num, batch_size)) :
                                 m \in DOMAIN idxs}}

\* The slices of one step, member by member.
Chunk(idxs, batch_num, batch_size) ==
    [m \in DOMAIN idxs |-> BatchIdxs(idxs[m], batch_num, batch_size)]

\* A slip that draws the members' rows afresh at the end of the epoch.
Redrawn(idxs, n) == [DOMAIN idxs -> [1..n -> 1..n]]

\* shuffle_rows(idxs): every member's row reordered by a permutation of its own.
ShuffleRows(idxs, n) ==
    {[m \in DOMAIN idxs |-> [j \in 1..n |-> idxs[m][p[m][j]]]] : p \in [DOMAIN idxs -> Perms(n)]}

\* The optimizer step writes every variable of var_list.
Stepped(vals) == [n \in DOMAIN vals |-> IF n \in Range(optvars) THEN "trained" ELSE vals[n]]

\* scaler.fit writes the scaler's variables.
Fitted(vals) == [n \in DOMAIN vals |-> IF n \in Range(ScalerVars) THEN "fit" ELSE vals[n]]

\* holdout_ratio < 1e-12, for a ratio of the grid k / RatioDen.
RatioIsZero(ratio_num) == ratio_num = 0

\* A slip that fits the scaler again at the end of every epoch.
EpochEndRefits(hide_progress, ratio_num) ==
    <<"fit", "shuffle">> \o
    (IF hide_progress THEN <<>>
     ELSE IF RatioIsZero(ratio_num) THEN <<"loss">>
     ELSE <<"loss", "holdout_loss">>)

\* What the end of an epoch does after the batches, in the order of lines
\* 250-278: the reshuffle, then the losses reported unless progress is hidden.
EpochEnd(hide_progress, ratio_num) ==
    <<"shuffle">> \o
    (IF hide_progress THEN <<>>
     ELSE IF RatioIsZero(ratio_num) THEN <<"loss">>
     ELSE <<"loss", "holdout_loss">>)

\* Lines 227-238: the split, the scaler fit and the bootstrap draw.  With no
\* retained row randint(0, ...) is asked for values below 0: numpy raises or
\* returns the empty array depending on its version (empty_ok).
TrainCall(N, batch_size, epochs, hide_progress, ratio_num, max_logging) ==
    /\ obj = "live" /\ pc = "idle"
    /\ Enter
    /\ LET num_holdout == NumHoldout(N, ratio_num, max_logging) IN
       \E permutation \in Perms(N) :
         LET inputs == Retained(permutation, num_holdout)
             holdout_inputs == HeldOut(permutation, num_holdout) IN
         IF scaler = None
         THEN /\ Raise("train", NoArg, "AttributeError")
              /\ obs' = [NoObs EXCEPT !.events = <<"split">>]
              /\ UNCHANGED <<scaler, values, tr>>
         ELSE /\ scaler' = Fit(scaler)
              /\ values' = Fitted(values)
              /\ \E empty_ok \in BOOLEAN :
                   IF Len(inputs) = 0 /\ ~empty_ok
                   THEN /\ obs' = [NoObs EXCEPT !.fits = 1, !.fit_rows = FitRows(inputs),
                                                !.events = <<"split", "fit">>]
                        /\ Raise("train", NoArg, "ValueError")
                        /\ UNCHANGED tr
                   ELSE \E idxs \in BootstrapDraws(num_nets, Len(inputs)) :
                        /\ obs' = [NoObs EXCEPT !.fits = 1, !.fit_rows = FitRows(inputs),
                                                !.draws = 1, !.drawn = idxs,
                                                !.events = <<"split", "fit", "draw">>]
                        /\ pc' = "train"
                        /\ last' = Call("train", NoArg, "running", NoRet)
                        /\ tr' = [N |-> N, batch_size |-> batch_size, epochs |-> epochs,
                                  hide_progress |-> hide_progress, ratio_num |-> ratio_num,
                                  max_logging |-> max_logging, num_holdout |-> num_holdout,
                                  inputs |-> inputs, holdout_inputs |-> holdout_inputs,
                                  idxs |-> idxs,
                                  targets |-> inputs, holdout_targets |-> holdout_inputs,
                                  epoch |-> 0, batch_num |-> 0]
    /\ UNCHANGED <<config, finalized, layers, decays, optvars, nonoptvars, optimizer,
                   graph, files, attempts, prev>>

\* Lines 244-249: one optimizer step on the next chunk of every member's row.
TrainBatch ==
    /\ pc = "train"
    /\ tr.epoch < tr.epochs
    /\ tr.batch_num < NumBatches(Len(tr.inputs), tr.batch_size)
    /\ IF graph.train_op = "None"
       THEN /\ Raise("train", NoArg, "TypeError")
            /\ UNCHANGED <<values, tr, obs>>
       ELSE /\ values' = Stepped(values)
            /\ obs' = [obs EXCEPT !.steps = @ + 1,
                                  !.fed = @ \cup RowsFed(tr.inputs, tr.idxs, tr.batch_num,
                                                         tr.batch_size),
                                  !.epoch_fed = Append(@, Chunk(tr.idxs, tr.batch_num,
                                                                tr.batch_size)),
                                  !.events = Append(@, "step")]
            /\ tr' = [tr EXCEPT !.batch_num = @ + 1]
            /\ UNCHANGED <<pc, last>>
    /\ UNCHANGED <<config, finalized, layers, decays, optvars, nonoptvars, scaler,
                   optimizer, graph, files, attempts, pre, prev>>

\* Lines 250-278: the end of an epoch: reshuffle, then the progress report.
TrainEpochEnd ==
    /\ pc = "train"
    /\ tr.epoch < tr.epochs
    /\ tr.batch_num = NumBatches(Len(tr.inputs), tr.batch_size)
    /\ \E shuffled \in ShuffleRows(tr.idxs, Len(tr.inputs)) :
         tr' = [tr EXCEPT !.idxs = shuffled, !.epoch = @ + 1, !.batch_num = 0]
    /\ LET done == EpochEnd(tr.hide_progress, tr.ratio_num)
           evals(e) == Cardinality({k \in 1..Len(done) : done[k] = e}) IN
       obs' = [obs EXCEPT !.epoch_fed = <<>>,
                          !.events = @ \o done,
                          !.fits = @ + evals("fit"),
                          !.loss_evals = @ + evals("loss"),
                          !.holdout_evals = @ + evals("holdout_loss"),
                          !.empty_holdout_evals =
                              IF Len(tr.holdout_inputs) = 0
                              THEN @ + evals("holdout_loss") ELSE @]
    /\ UNCHANGED <<config, finalized, layers, built, files, attempts, pc, last, pre, prev>>

\* The epoch loop is exhausted: train returns None.
TrainReturn ==
    /\ pc = "train"
    /\ tr.epoch = tr.epochs
    /\ Return("train", NoArg, "none", NoRet)
    /\ UNCHANGED <<config, finalized, layers, built, files, attempts, tr, obs, pre, prev>>

\* --------------------------------------------------------------- the caller
\* The caller has the outcome of its call and goes on: the locals of the call
\* are gone.
Resume ==
    /\ pc = "done"
    /\ pc' = "idle"
    /\ last' = Call("none", NoArg, "none", NoRet)
    /\ prev' = IF last.op = "add" /\ last.err = "none"
               THEN [added |-> TRUE, before |-> pre.layers,
                     overridden |-> IF Overrides(last.arg.input_dim, Last(layers).input_dim)
                                    THEN prev.overridden \cup {Len(layers)}
                                    ELSE prev.overridden]
               ELSE IF last.op = "pop" /\ last.err = "none"
               THEN [NoPrev EXCEPT !.overridden = prev.overridden \ {Len(pre.layers)}]
               ELSE [NoPrev EXCEPT !.overridden = prev.overridden]
    /\ pre' = Snapshot
    /\ tr' = IdleTrain
    /\ obs' = NoObs
    /\ UNCHANGED <<config, finalized, layers, built, files, attempts>>

\* ------------------------------------------------------------------- calls
\* train(inputs, targets, epochs=1) on 0..FewRows rows: holdout_ratio at its
\* default 0 and progress reported; batch_size and max_logging at the top of
\* their ranges (the defaults, 32 and 5000, exceed every data set drawn here).
TrainDefault == \E N \in 0..FewRows : TrainCall(N, MaxBatch, 1, FALSE, 0, MaxLogging)

\* train with every argument drawn from its range.
TrainAny ==
    \E N \in 0..MaxRows, batch_size \in 1..MaxBatch, epochs \in 0..MaxEpochs,
       hide_progress \in BOOLEAN, ratio_num \in 0..RatioDen, max_logging \in 0..MaxLogging :
        TrainCall(N, batch_size, epochs, hide_progress, ratio_num, max_logging)

\* A model that restores nothing at finalize.
ConstructPlain == \E n \in 1..MaxNets : Construct(n, FALSE, "None")
ConstructAny ==
    \E n \in 1..MaxNets, lm \in BOOLEAN, d \in {"None", "dir"} : Construct(n, lm, d)
AddAny == \E l \in CallerLayers : Add(l)
FinalizeAny == \E a \in ArchiveChoices(Len(layers)), c \in BOOLEAN : Finalize(a, c)
\* predict on one input row, every shape and flag; the networks put out zeros.
PredictAny == \E sh \in PredictShapes, f \in BOOLEAN : Predict(sh, f, 0)

\* predict on a rank-2 batch, every flag and every output of the networks.
PredictValues ==
    \E b \in 1..MaxPredictRows, d \in Dims, f \in BOOLEAN : Predict(<<b, d>>, f, MaxOut)
SaveAny == \E d \in {"None", "dir"} : Save(d)

\* One fully specified first layer, for the runs that explore train.
UnitLayer == [input_dim |-> 1, output_dim |-> 1, ensemble_size |-> 1]
AddUnit == Add(UnitLayer)

\* The life cycle of a model: every call, train at its smallest.
Next ==
    \/ ConstructAny
    \/ AddAny
    \/ Pop
    \/ FinalizeAny
    \/ PredictAny
    \/ SaveAny
    \/ TrainDefault
    \/ TrainBatch
    \/ TrainEpochEnd
    \/ TrainReturn
    \/ Resume

Spec == Init /\ [][Next]_vars

\* Training: a model of one unit layer, train with every argument drawn.
NextTrain ==
    \/ ConstructPlain
    \/ AddUnit
    \/ FinalizeAny
    \/ TrainAny
    \/ TrainBatch
    \/ TrainEpochEnd
    \/ TrainReturn
    \/ Resume

SpecTrain == Init /\ [][NextTrain]_vars

\* train is one synchronous call: once made, the interpreter keeps running its
\* loop (no step of it waits for anything).
TrainRuns == TrainBatch \/ TrainEpochEnd \/ TrainReturn
SpecTrainFair == SpecTrain /\ WF_vars(TrainRuns)

\* Prediction: a model of one unit layer, predict with the outputs drawn.
NextPredict ==
    \/ ConstructPlain
    \/ AddUnit
    \/ FinalizeAny
    \/ PredictValues
    \/ Resume

SpecPredict == Init /\ [][NextPredict]_vars

\* ===================================================================== claims
Failed(c) == c.err \notin {"none", "running"}

RECURSIVE SumInts(_)
SumInts(s) == IF Len(s) = 0 THEN 0 ELSE SumInts(Front(s)) + Last(s)

\* C1: once finalize has succeeded the model stays finalized and its layer list
\* never changes: through any call made on a finalized model (add, pop,
\* finalize, train, predict, save) finalized is still true and the layer list is
\* the one the call found, and every add and every pop made on it raises.
C1_FinalizedIsPermanent ==
    pre.finalized =>
        /\ finalized
        /\ layers = pre.layers
        /\ last.op \in {"add", "pop"} => Failed(last)

\* An add has been made on a finalized model (and has ended).
C1_Witness == pc = "done" /\ last.op = "add" /\ pre.finalized

\* C2: finalize raises when the layer list is empty and when the model is
\* already finalized; the second finalize leaves every field of the object
\* (optimizer, variable lists, decay list, graph handles, layers, flag) as it was.
C2_FinalizeGuards ==
    last.op = "finalize" =>
        /\ pre.layers = <<>> => Failed(last) /\ Snapshot = pre
        /\ pre.finalized => Failed(last) /\ Snapshot = pre

\* A finalize has been made on a finalized model.
C2_Witness == pc = "done" /\ last.op = "finalize" /\ pre.finalized

\* C3: train and predict made on a model that is not finalized raise, and the
\* call does no optimizer step, no scaler fit and changes neither the layers
\* nor the flag.
C3_UnfinalizedTrainPredictFail ==
    (last.op \in {"train", "predict"} /\ ~pre.finalized) =>
        /\ Failed(last)
        /\ obs.steps = 0 /\ obs.fits = 0
        /\ layers = pre.layers /\ finalized = pre.finalized

\* C4: save made on a model that is not finalized raises, writes no file and
\* leaves the object as it was.
C4_SaveNeedsFinalized ==
    (last.op = "save" /\ ~pre.finalized) =>
        /\ last.err = "RuntimeError"
        /\ files = pre.files
        /\ Snapshot = pre

\* A save has been made on a model with layers that is not finalized.
C4_Witness == pc = "done" /\ last.op = "save" /\ ~pre.finalized /\ pre.layers # <<>>

\* C5: pop on a model that is not finalized raises on an empty list, which
\* stays empty; otherwise it returns the last layer and leaves the list without
\* exactly that element, the earlier layers unchanged and in order.
C5_PopRemovesLast ==
    (last.op = "pop" /\ ~pre.finalized) =>
        IF pre.layers = <<>>
        THEN Failed(last) /\ layers = <<>>
        ELSE /\ last.err = "none"
             /\ last.ret.layer = <<pre.layers[Len(pre.layers)]>>
             /\ Len(layers) = Len(pre.layers) - 1
             /\ \A i \in 1..Len(layers) : layers[i] = pre.layers[i]

\* A pop has returned on a list of two layers that differ.
C5_Witness ==
    /\ pc = "done" /\ last.op = "pop" /\ last.err = "none"
    /\ Len(pre.layers) = 2 /\ pre.layers[1] # pre.layers[2]

\* C6: add on an empty layer list raises when the layer has no input dimension,
\* and the list is still empty; with an input dimension set it succeeds and the
\* list has exactly one layer.
C6_FirstLayerNeedsInputDim ==
    (last.op = "add" /\ pre.layers = <<>>) =>
        IF last.arg.input_dim = NoDim
        THEN Failed(last) /\ layers = <<>>
        ELSE /\ last.err = "none"
             /\ Len(layers) = 1
             /\ layers[1].input_dim = last.arg.input_dim

\* An add of a layer without input dimension has been made on an empty list.
C6_Witness ==
    pc = "done" /\ last.op = "add" /\ pre.layers = <<>> /\ last.arg.input_dim = NoDim

\* C7, as claimed: on a model constructed with load_model=true and a model
\* directory, add raises and pop raises.
C7_LoadedModelRefusesAddPop ==
    (load_model_values /\ last.op \in {"add", "pop"}) => Failed(last)

\* C7, amended: constructing with load_model=true and a model directory sets
\* only load_model_values and leaves model_loaded false, so add and pop are not
\* refused on that model: before finalize an add (with an input dimension when
\* the list is empty) appends a layer and a pop on a non-empty list removes one.
C7_LoadModeKeepsStructureOpen ==
    load_model_values =>
        /\ ~model_loaded
        /\ (last.op = "add" /\ ~pre.finalized
              /\ (pre.layers # <<>> \/ last.arg.input_dim # NoDim)) =>
                 last.err = "none" /\ Len(layers) = Len(pre.layers) + 1
        /\ (last.op = "pop" /\ ~pre.finalized /\ pre.layers # <<>>) =>
                 last.err = "none" /\ Len(layers) = Len(pre.layers) - 1

\* A pop has returned on a model constructed in load mode.
C7_Witness ==
    pc = "done" /\ load_model_values /\ last.op = "pop" /\ last.err = "none"

\* C8: on a model that is not finalized, an add that was accepted followed
\* immediately by pop leaves the layer list (length, order, every layer's
\* dimensions and ensemble size) as it was before the add.
C8_AddThenPop ==
    (last.op = "pop" /\ prev.added) =>
        /\ last.err = "none"
        /\ layers = prev.before

\* An accepted add on a non-empty list has been followed by a pop.
C8_Witness ==
    pc = "done" /\ last.op = "pop" /\ prev.added /\ prev.before # <<>>

C9_HoldoutCarving ==
    (last.op = "train" /\ last.err \in {"none", "running"}) =>
        LET held == Range(tr.holdout_inputs)
            kept == Range(tr.inputs)
        IN  /\ Len(tr.holdout_inputs) =
                 Min((tr.N * tr.ratio_num) \div RatioDen, tr.max_logging)
            /\ Cardinality(held) = Len(tr.holdout_inputs)
            /\ Cardinality(kept) = Len(tr.inputs)
            /\ held \cap kept = {}
            /\ held \cup kept = 1..tr.N
            /\ obs.fit_rows \subseteq kept /\ obs.fit_rows \cap held = {}
            /\ obs.fed \subseteq kept /\ obs.fed \cap held = {}

\* A train that held one row out and kept another has run an optimizer step.
C9_Witness ==
    /\ last.op = "train" /\ pc = "done" /\ last.err = "none"
    /\ Len(tr.holdout_inputs) = 1 /\ Len(tr.inputs) = 1 /\ obs.steps > 0

\* C11: a rank-2 predict with factored=False on a finalized model returns, for
\* every input row and output unit, a mean that is the sum of the members'
\* outputs divided by the number of members and a variance that is the
\* population variance of the members' outputs (n^2 * var = n * sum of squares
\* - square of the sum); the variance is never negative and is 0 with one member.
C11_EnsembleAggregation ==
    (last.op = "predict" /\ pre.finalized /\ last.err = "none"
       /\ Len(last.arg.shape) = 2 /\ ~last.arg.factored) =>
        \A i \in 1..last.arg.shape[1], j \in 1..Last(layers).output_dim :
            LET n == num_nets
                s == SumInts([m \in 1..n |-> last.ret.fac[m][i][j].num])
                q == SumInts([m \in 1..n |-> last.ret.fac[m][i][j].num
                                                * last.ret.fac[m][i][j].num])
                mean == last.ret.mean_val[i][j]
                var == last.ret.var_val[i][j]
            IN  /\ mean.den > 0 /\ var.den > 0
                /\ n * mean.num = s * mean.den
                /\ n * n * var.num = (n * q - s * s) * var.den
                /\ var.num >= 0
                /\ n = 1 => var.num = 0

\* Two members that disagree on a row have been aggregated.
C11_Witness ==
    /\ pc = "done" /\ last.op = "predict" /\ pre.finalized /\ last.err = "none"
    /\ Len(last.arg.shape) = 2 /\ ~last.arg.factored /\ num_nets = 2
    /\ last.ret.fac[1][1][1] # last.ret.fac[2][1][1]
    /\ last.ret.var_val[1][1].num > 0
\* ceil(n / b) for b >= 1.
Ceil(n, b) == CHOOSE k \in 0..n : k * b >= n /\ (k - 1) * b < n

\* C12: a train call on a finalized model that retained at least one row always
\* ends, by returning, and has then done exactly
\* epochs * ceil(N_train / batch_size) optimizer steps; while it runs, the steps
\* done are those of the completed epochs plus the chunks of the current one,
\* so nothing cuts an epoch or the run short.
C12_StepCount ==
    (last.op = "train" /\ pre.finalized /\ Len(tr.inputs) >= 1) =>
        LET chunks == Ceil(Len(tr.inputs), tr.batch_size) IN
        /\ pc = "done" => last.err = "none" /\ obs.steps = tr.epochs * chunks
        /\ pc = "train" => /\ obs.steps = tr.epoch * chunks + tr.batch_num
                           /\ tr.epoch <= tr.epochs /\ tr.batch_num <= chunks

\* C12 (whole claim): the step count above holds in every state, and every
\* train loop entered on a finalized model with a retained row leads to the
\* return of train.
C12_TrainRunsEveryEpoch ==
    /\ [](C12_StepCount)
    /\ (pc = "train" /\ pre.finalized /\ Len(tr.inputs) >= 1)
         ~> (pc = "done" /\ last.op = "train" /\ last.err = "none")

\* A train of two epochs on one retained row with batch_size 2 has returned
\* after two steps (one short chunk per epoch).
C12_Witness ==
    /\ pc = "done" /\ last.op = "train" /\ pre.finalized /\ last.err = "none"
    /\ tr.epochs = 2 /\ Len(tr.inputs) = 1 /\ tr.batch_size = 2 /\ obs.steps = 2
\* C13: in load mode num_networks is ignored: a model constructed in load mode
\* has the ensemble size of any other load-mode model built from the same
\* archive, whatever num_networks that one was given (the archive is not read
\* before finalize and the ensemble size is not assigned after __init__).
C13_LoadModeIgnoresNumNetworks ==
    (obj = "live" /\ load_model_values) =>
        \A other \in 1..MaxNets : num_nets = NumNets(other, TRUE)
\* C14: a layer added after the first with an explicitly set input dimension
\* that differs from the previous layer's output dimension is reported as an
\* error at add or at the latest at finalize: when an add has accepted such a
\* layer and the layer is still in the list, finalize raises.
C14_MismatchReported ==
    (last.op = "finalize" /\ ~pre.finalized /\ prev.overridden # {}) => Failed(last)
\* C15: constructing with load_model=true and no model directory raises and
\* gives no object; so every object in load mode has a model directory, and
\* every add, finalize, train and predict is made on an object that is not a
\* load-mode object without directory.
C15_LoadNeedsDirectory ==
    /\ (last.op = "init" /\ last.arg.load_model /\ last.arg.model_dir = "None") =>
           Failed(last) /\ obj = "none"
    /\ (obj = "live" /\ load_model_values) => model_dir # "None"
    /\ last.op \in {"add", "finalize", "train", "predict"} =>
           obj = "live" /\ ~(load_model_values /\ model_dir = "None")

\* A construction with load_model=true and no model directory has been made.
C15_Witness ==
    pc = "done" /\ last.op = "init" /\ last.arg.load_model /\ last.arg.model_dir = "None"
\* C16: in every state every layer of the list has the model's ensemble size
\* and every layer after the first has the output dimension of the layer before
\* it as its input dimension.
C16_LayersChained ==
    /\ \A i \in 1..Len(layers) : layers[i].ensemble_size = num_nets
    /\ \A i \in 2..Len(layers) : layers[i].input_dim = layers[i - 1].output_dim

\* A list of two layers of an ensemble of two, the second handed over with an
\* input dimension that is not the first layer's output dimension.
C16_Witness ==
    /\ Len(layers) = 2 /\ num_nets = 2 /\ pc = "done" /\ last.op = "add"
    /\ last.err = "none" /\ Overrides(last.arg.input_dim, layers[1].output_dim)
\* How often v occurs in the sequence s.
Count(s, v) == Cardinality({k \in 1..Len(s) : s[k] = v})

\* What member m has been fed in the steps of the current epoch, in order.
RECURSIVE FedSoFar(_, _)
FedSoFar(chunks, m) ==
    IF Len(chunks) = 0 THEN <<>> ELSE FedSoFar(Front(chunks), m) \o Last(chunks)[m]

\* C17, in every state of a running or returned train: the bootstrap rows were
\* drawn once; each member's current row holds every index as often as the row
\* drawn for that member; the chunks fed so far in the epoch are, member by
\* member, the start of that member's row, position by position; every step
\* fed all members chunks of one length, batch_size or, for the chunk that
\* ends the row only, shorter.
C17_Streams ==
    (last.op = "train" /\ last.err \in {"none", "running"} /\ obs.draws > 0) =>
        LET n == Len(tr.inputs)
            members == 1..num_nets
        IN  /\ obs.draws = 1
            /\ DOMAIN tr.idxs = members /\ DOMAIN obs.drawn = members
            /\ \A m \in members : \A v \in 1..n :
                   Len(tr.idxs[m]) = n /\ Count(tr.idxs[m], v) = Count(obs.drawn[m], v)
            /\ \A m \in members :
                   FedSoFar(obs.epoch_fed, m) =
                       SubSeq(tr.idxs[m], 1, Len(FedSoFar(obs.epoch_fed, m)))
            /\ \A k \in 1..Len(obs.epoch_fed) : \A m \in members :
                   LET len == Len(obs.epoch_fed[k][m]) IN
                   /\ len = Len(obs.epoch_fed[k][1])
                   /\ \/ len = tr.batch_size
                      \/ /\ 0 < len /\ len < tr.batch_size
                         /\ k = Len(obs.epoch_fed)
                         /\ Len(FedSoFar(obs.epoch_fed, m)) = n

\* C17, at the end of an epoch: when train leaves an epoch, every member has
\* been fed its whole row in that epoch, each position in one step.
C17_EpochFeedsWholeRow ==
    (pc = "train" /\ tr'.epoch # tr.epoch) =>
        \A m \in 1..num_nets : FedSoFar(obs.epoch_fed, m) = tr.idxs[m]

\* C17 (whole claim): the rows are drawn once before the first epoch, the
\* reshuffle keeps every member's multiset of indices, every epoch feeds every
\* position of every member's row to exactly one step, and the chunks of a step
\* have one length.
C17_BootstrapStreams == [](C17_Streams) /\ [][C17_EpochFeedsWholeRow]_vars

\* Two members with different rows of two indices are in their second epoch,
\* one member's row in another order than it was drawn.
C17_Witness ==
    /\ pc = "train" /\ last.op = "train" /\ tr.epoch = 1 /\ num_nets = 2
    /\ Len(tr.inputs) = 2 /\ tr.batch_size = 1 /\ Len(obs.epoch_fed) = 1
    /\ obs.drawn[1] = <<1, 2>> /\ obs.drawn[2] = <<2, 2>> /\ tr.idxs[1] = <<2, 1>>
\* Positions of the event e in the order of events of the train call.
At(e) == {k \in 1..Len(obs.events) : obs.events[k] = e}

\* C18: a train call that reaches its loop has fit the scaler exactly once, on
\* the retained rows (not one held-out row), after the split and before every
\* optimizer step and every loss evaluation; the count stays 1 through all
\* epochs.
C18_ScalerFitOnce ==
    (last.op = "train" /\ last.err \in {"none", "running"}) =>
        /\ obs.fits = 1 /\ Cardinality(At("fit")) = 1
        /\ obs.fit_rows = (1..tr.N) \ Range(tr.holdout_inputs)
        /\ \A f \in At("fit") :
              /\ \E k \in At("split") : k < f
              /\ \A k \in At("step") \cup At("loss") \cup At("holdout_loss") : f < k

\* A train that held a row out has returned after two epochs with their steps
\* and loss evaluations.
C18_Witness ==
    /\ pc = "done" /\ last.op = "train" /\ last.err = "none" /\ tr.epochs = 2
    /\ Len(tr.holdout_inputs) = 1 /\ Cardinality(At("step")) = 2
    /\ Cardinality(At("holdout_loss")) = 2

\* C19: when train reports progress, the holdout loss is evaluated after an
\* epoch exactly when rows were held out: after every epoch with a non-empty
\* holdout set, never with an empty one.
C19_HoldoutLossIffHeldOut ==
    (last.op = "train" /\ last.err \in {"none", "running"} /\ ~tr.hide_progress) =>
        IF Len(tr.holdout_inputs) > 0
        THEN obs.holdout_evals = tr.epoch /\ obs.empty_holdout_evals = 0
        ELSE obs.holdout_evals = 0
\* C20: a finalize that gets past its guards on a model in load mode ends
\* finalized exactly when it did not raise; when it returns, every variable the
\* archive names holds its restored value and every other variable its initial
\* value (the restore came after the initialization); when the archive is
\* missing or names a tensor the graph does not hold, finalize raises and the
\* model is not finalized.
C20_RestoreThenFinalized ==
    (last.op = "finalize" /\ load_model_values /\ ~pre.finalized /\ pre.layers # <<>>) =>
        LET archive == last.arg.archive
            named == {archive.names[k] : k \in 1..Len(archive.names)}
        IN  /\ finalized <=> last.err = "none"
            /\ last.err = "none" =>
                  /\ named \subseteq DOMAIN values
                  /\ \A n \in DOMAIN values :
                        values[n] = IF n \in named THEN "restored" ELSE "init"
            /\ (~archive.exists \/ ~(named \subseteq DOMAIN values)) =>
                  Failed(last) /\ ~finalized

\* A finalize in load mode has returned with restored layer variables next to
\* initialized scaler variables.
C20_Witness ==
    /\ pc = "done" /\ last.op = "finalize" /\ load_model_values /\ last.err = "none"
    /\ \E n \in DOMAIN values : values[n] = "restored"
    /\ \E n \in DOMAIN values : values[n] = "init"

====
